---------------------------- MODULE Spec2Model ----------------------------
(***************************************************************************)
(* Lead-generation pipeline: identification (src/src/identification.py),   *)
(* enrichment (src/src/enrichment.py), ranking (src/src/ranking.py) and    *)
(* the driver loop of src/app.py.                                          *)
(*                                                                         *)
(* Python strings are sequences of one-character strings, so that lower(), *)
(* substring tests, split() and key concatenation are computed, not        *)
(* assumed.  Optional values are None == <<>> or Some(x) == <<x>>.         *)
(* Attributes that the Lead dataclass does not declare and that are set    *)
(* dynamically (technographic_signals, rank) are present on a lead exactly *)
(* when their name is in the lead's field dyn.                             *)
(***************************************************************************)
EXTENDS Integers, Sequences, FiniteSets, TLC

VARIABLES
    pc,             \* position of the run
    weights,        \* RankingEngine.weights
    lead,           \* the lead handed to calculate_score (scoring runs)
    ret,            \* value returned by the last call
    clock_year,     \* the calendar year in which the run takes place
    job_titles,     \* identify_leads argument
    keywords,       \* identify_leads argument
    max_results,    \* identify_leads argument
    leads_dict,     \* identify_leads local: insertion-ordered map key -> Lead
    queue,          \* records of the running for loop not yet visited
    conf,           \* index of the conference being searched
    pubmed,         \* what requests.get did in search_papers
    query,          \* the keywords handed to search_papers, None before the call
    mock_attendees, \* the conference provider's data, None before the first search
    created,        \* history: one entry per Lead constructed, in order
    handled,        \* history: how many author and attendee records were merged
    leads,          \* the list identify_leads returned: the Lead objects, in order
    idx,            \* enrichment loop: position of the next lead in leads
    enriched_leads, \* app.py main: the list it builds, as positions in leads
    ranked_leads,   \* the list rank_leads returned, as positions in leads
    failed,         \* history: for each lead enriched, the sub-enricher that raised
    given,          \* history: leads as handed to the enrichment loop
    steps           \* history: the sub-enricher steps completed, in order

scoreVars == <<weights, lead, ret, clock_year>>

identVars == <<job_titles, keywords, max_results, leads_dict, queue, conf, pubmed, query, mock_attendees, created, handled, leads>>

pipeVars == <<idx, enriched_leads, ranked_leads, failed, given, steps>>

vars == <<pc, scoreVars, identVars, pipeVars>>

----------------------------------------------------------------------------
(* Python values *)

None == <<>>

Some(x) == <<x>>

UpperChars ==
    <<"A","B","C","D","E","F","G","H","I","J","K","L","M",
      "N","O","P","Q","R","S","T","U","V","W","X","Y","Z">>

LowerChars ==
    <<"a","b","c","d","e","f","g","h","i","j","k","l","m",
      "n","o","p","q","r","s","t","u","v","w","x","y","z">>

\* str.lower() on one character
LowerChar(c) ==
    IF \E i \in 1..Len(UpperChars) : UpperChars[i] = c
    THEN LowerChars[CHOOSE i \in 1..Len(UpperChars) : UpperChars[i] = c]
    ELSE c

RECURSIVE Lower(_)
\* str.lower()
Lower(s) ==
    IF s = <<>> THEN <<>> ELSE <<LowerChar(Head(s))>> \o Lower(Tail(s))

\* Python's  sub in s  on strings
Contains(sub, s) ==
    \E i \in 0..(Len(s) - Len(sub)) : SubSeq(s, i + 1, i + Len(sub)) = sub

\* any(keyword in s for keyword in kws)
AnyContains(kws, s) ==
    \E k \in 1..Len(kws) : Contains(kws[k], s)

\* dict.get(k, default)
DictGet(d, k, default) ==
    IF k \in DOMAIN d THEN d[k] ELSE default

Min(a, b) == IF a <= b THEN a ELSE b

----------------------------------------------------------------------------
(* Stage 3: ranking.py *)

\* ScoringWeights() with the dataclass defaults
DefaultWeights ==
    [role_fit_high |-> 30, company_intent_high |-> 20,
     technographic_medium |-> 15, technographic_nams |-> 10,
     location_hub |-> 10, scientific_intent_very_high |-> 40]

high_value_titles ==
    << <<"d","i","r","e","c","t","o","r">>,  \* "director"
       <<"h","e","a","d">>,  \* "head"
       <<"v","p">>,  \* "vp"
       <<"v","i","c","e"," ","p","r","e","s","i","d","e","n","t">>,  \* "vice president"
       <<"c","h","i","e","f">>,  \* "chief"
       <<"s","e","n","i","o","r">>,  \* "senior"
       <<"p","r","i","n","c","i","p","a","l">>,  \* "principal"
       <<"l","e","a","d">> >>  \* "lead"

role_keywords ==
    << <<"t","o","x","i","c","o","l","o","g","y">>,  \* "toxicology"
       <<"s","a","f","e","t","y">>,  \* "safety"
       <<"h","e","p","a","t","i","c">>,  \* "hepatic"
       <<"3","d">>,  \* "3d"
       <<"p","r","e","c","l","i","n","i","c","a","l">>,  \* "preclinical"
       <<"d","r","u","g"," ","d","i","s","c","o","v","e","r","y">>,  \* "drug discovery"
       <<"p","h","a","r","m","a","c","o","l","o","g","y">>,  \* "pharmacology"
       <<"d","i","l","i">> >>  \* "dili"

scientific_keywords ==
    << <<"d","r","u","g","-","i","n","d","u","c","e","d"," ","l","i","v","e","r"," ","i","n","j","u","r","y">>,  \* "drug-induced liver injury"
       <<"d","i","l","i">>,  \* "dili"
       <<"l","i","v","e","r"," ","t","o","x","i","c","i","t","y">>,  \* "liver toxicity"
       <<"h","e","p","a","t","i","c">>,  \* "hepatic"
       <<"3","d"," ","m","o","d","e","l">>,  \* "3d model"
       <<"o","r","g","a","n","-","o","n","-","c","h","i","p">> >>  \* "organ-on-chip"

high_value_stages ==
    << <<"s","e","r","i","e","s"," ","a">>,  \* "series a"
       <<"s","e","r","i","e","s"," ","b">>,  \* "series b"
       <<"s","e","r","i","e","s"," ","c">>,  \* "series c"
       <<"p","u","b","l","i","c">>,  \* "public"
       <<"i","p","o">> >>  \* "ipo"

tech_keywords ==
    << <<"i","n"," ","v","i","t","r","o">>,  \* "in vitro"
       <<"3","d">>,  \* "3d"
       <<"o","r","g","a","n","-","o","n","-","c","h","i","p">>,  \* "organ-on-chip"
       <<"s","p","h","e","r","o","i","d","s">> >>  \* "spheroids"

hub_locations ==
    << <<"b","o","s","t","o","n">>,  \* "boston"
       <<"c","a","m","b","r","i","d","g","e">>,  \* "cambridge"
       <<"b","a","y"," ","a","r","e","a">>,  \* "bay area"
       <<"s","a","n"," ","f","r","a","n","c","i","s","c","o">>,  \* "san francisco"
       <<"b","a","s","e","l">>,  \* "basel"
       <<"l","o","n","d","o","n">>,  \* "london"
       <<"o","x","f","o","r","d">>,  \* "oxford"
       <<"g","o","l","d","e","n"," ","t","r","i","a","n","g","l","e">> >>  \* "golden triangle"

current_year == 2024

\* variant of _score_role_fit: a domain-role keyword alone earns the full weight
_score_role_fit_NoHalf(title, w) ==
    IF title = <<>> THEN 0
    ELSE IF AnyContains(role_keywords, Lower(title)) THEN w.role_fit_high ELSE 0

_score_role_fit(title, w) ==
    IF title = <<>> THEN 0
    ELSE LET title_lower == Lower(title)
             has_high_value_title == AnyContains(high_value_titles, title_lower)
             has_role_keyword == AnyContains(role_keywords, title_lower)
         IN  IF has_high_value_title /\ has_role_keyword
             THEN w.role_fit_high
             ELSE IF has_role_keyword THEN w.role_fit_high \div 2 ELSE 0

\* funding_info is None or Some(dict); an empty dict is falsy like None
_score_company_intent(funding_info, w) ==
    IF funding_info = None \/ DOMAIN funding_info[1] = {} THEN 0
    ELSE LET funding_stage == Lower(DictGet(funding_info[1], "funding_stage", <<>>))
             has_budget == DictGet(funding_info[1], "has_budget", FALSE)
         IN  IF AnyContains(high_value_stages, funding_stage) /\ has_budget
             THEN w.company_intent_high
             ELSE IF has_budget THEN w.company_intent_high \div 2 ELSE 0

_score_technographic(technographic_signals, w) ==
    IF \E k \in 1..Len(technographic_signals) :
          AnyContains(tech_keywords, Lower(technographic_signals[k]))
    THEN w.technographic_medium
    ELSE 0

_score_nams(technographic_signals, w) ==
    IF \E k \in 1..Len(technographic_signals) :
          Contains(<<"n","a","m">>, Lower(technographic_signals[k]))
    THEN w.technographic_nams
    ELSE 0

\* person_location is a string, company_hq is None or Some(string)
_score_location(person_location, company_hq, w) ==
    LET location_lower == Lower(person_location)
        hq_lower == IF company_hq = None THEN <<>> ELSE Lower(company_hq[1])
    IN  IF \E k \in 1..Len(hub_locations) :
              Contains(hub_locations[k], location_lower)
              \/ Contains(hub_locations[k], hq_lower)
        THEN w.location_hub
        ELSE 0

\* paper.get("year", 0) and paper.get("title", ""): a stored year or title
\* is None or Some(value)
PaperYear(paper) == DictGet(paper, "year", Some(0))

PaperTitle(paper) ==
    LET t == DictGet(paper, "title", Some(<<>>))
    IN  IF t = None THEN <<>> ELSE Lower(t[1])

\* line 185 compares the year with an integer: a None year is a TypeError
ScientificIntentRaises(pubmed_papers) ==
    \E k \in 1..Len(pubmed_papers) : PaperYear(pubmed_papers[k]) = None

IsRelevantPaper(paper) ==
    /\ PaperYear(paper) # None
    /\ PaperYear(paper)[1] >= current_year - 2
    /\ AnyContains(scientific_keywords, PaperTitle(paper))

_score_scientific_intent(pubmed_papers, w) ==
    LET relevant_papers ==
            Cardinality({k \in 1..Len(pubmed_papers) : IsRelevantPaper(pubmed_papers[k])})
    IN  IF relevant_papers > 0 THEN w.scientific_intent_very_high ELSE 0

\* the sum of the six contributions, before the cap
SignalSum(l, w) ==
    _score_role_fit(l.title, w)
    + _score_company_intent(l.funding_info, w)
    + _score_technographic(l.technographic_signals, w)
    + _score_nams(l.technographic_signals, w)
    + _score_location(l.location, l.company_hq, w)
    + _score_scientific_intent(l.pubmed_papers, w)

\* calculate_score raises: AttributeError at line 67 when the lead has no
\* technographic_signals attribute, TypeError at line 185 on a None year
CalculateScoreRaises(l) ==
    \/ "technographic_signals" \notin l.dyn
    \/ ScientificIntentRaises(l.pubmed_papers)

\* variant of ScoreValue: the cap at 100 is left out
ScoreValue_NoCap(l, w) == SignalSum(l, w)

\* the value calculate_score stores and returns (line 83)
ScoreValue(l, w) == Min(SignalSum(l, w), 100)

----------------------------------------------------------------------------
(* Stage 1 data: identification.py *)

\* Lead(...) with the dataclass defaults and __post_init__ applied
Lead(name, title, company, location, company_hq, linkedin_url, pubmed_papers, conference_attendance) ==
    [name |-> name, title |-> title, company |-> company,
     location |-> location, company_hq |-> company_hq,
     email |-> None, phone |-> None, linkedin_url |-> linkedin_url,
     pubmed_papers |-> pubmed_papers,
     conference_attendance |-> conference_attendance,
     funding_info |-> None, score |-> 0,
     dyn |-> {}, technographic_signals |-> <<>>, rank |-> 0]

----------------------------------------------------------------------------
(* Scoring runs: calculate_score applied to one lead *)

ScoreTitles ==
    { <<>>,
      <<"D","i","r","e","c","t","o","r"," ","o","f"," ","T","o","x","i","c","o","l","o","g","y">>,
      <<"J","u","n","i","o","r"," ","S","c","i","e","n","t","i","s","t">>,
      <<"T","o","x","i","c","o","l","o","g","i","s","t">>,
      <<"S","a","f","e","t","y"," ","S","c","i","e","n","t","i","s","t">> }

ScoreFunding ==
    { None,
      Some(<<>>),
      Some([has_budget |-> TRUE]),
      Some([recent_funding |-> None, funding_stage |-> <<"U","n","k","n","o","w","n">>,
            amount |-> None, date |-> None, has_budget |-> FALSE]),
      Some([recent_funding |-> Some(<<"S","e","r","i","e","s"," ","B"," ","-"," ","$","5","0","M"," ","(","2","0","2","4",")">>),
            funding_stage |-> <<"S","e","r","i","e","s"," ","B">>, amount |-> Some(50000000),
            date |-> Some(<<"2","0","2","4","-","0","1","-","1","5">>), has_budget |-> TRUE]),
      Some([recent_funding |-> None, funding_stage |-> <<"S","e","e","d">>,
            amount |-> None, date |-> None, has_budget |-> TRUE]) }

\* [set |-> FALSE]: the lead was never given the attribute
ScoreSignals ==
    { [set |-> FALSE, val |-> <<>>],
      [set |-> TRUE, val |-> <<>>],
      [set |-> TRUE, val |-> << <<"U","s","e","s"," ","i","n"," ","v","i","t","r","o"," ","m","o","d","e","l","s">>, <<"O","p","e","n"," ","t","o"," ","N","A","M","s">> >>],
      [set |-> TRUE, val |-> << <<"O","p","e","n"," ","t","o"," ","N","A","M","s">> >>],
      [set |-> TRUE, val |-> << <<"U","s","e","s"," ","i","n"," ","v","i","t","r","o"," ","m","o","d","e","l","s">> >>] }

ScoreLocations == { <<>>, <<"C","a","m","b","r","i","d","g","e",","," ","M","A">>, <<"U","n","k","n","o","w","n">> }

ScoreHQs == { None, Some(<<"C","a","m","b","r","i","d","g","e",","," ","M","A">>), Some(<<"N","e","w"," ","Y","o","r","k",","," ","N","Y">>) }

RecentRelevantPaper ==
    [title |-> Some(<<"3","D"," ","I","n","-","V","i","t","r","o"," ","M","o","d","e","l","s"," ","f","o","r"," ","H","e","p","a","t","i","c"," ","T","o","x","i","c","i","t","y"," ","A","s","s","e","s","s","m","e","n","t">>),
     year |-> Some(2023), pmid |-> <<"1">>]

OldRelevantPaper ==
    [title |-> Some(<<"H","e","p","a","t","i","c"," ","s","p","h","e","r","o","i","d","s">>), year |-> Some(2021), pmid |-> <<"2">>]

RecentOtherPaper ==
    [title |-> Some(<<"R","e","s","e","a","r","c","h"," ","P","a","p","e","r"," ","3">>), year |-> Some(2024), pmid |-> <<"3">>]

ScorePapers ==
    { <<>>,
      <<RecentRelevantPaper>>,
      <<OldRelevantPaper>>,
      <<RecentOtherPaper>>,
      <<OldRelevantPaper, RecentRelevantPaper>>,
      << [title |-> None, year |-> Some(2024), pmid |-> <<"4">>] >>,
      << [title |-> Some(<<"H","e","p","a","t","i","c"," ","s","p","h","e","r","o","i","d","s">>), pmid |-> <<"5">>] >>,
      << [title |-> Some(<<"H","e","p","a","t","i","c"," ","s","p","h","e","r","o","i","d","s">>), year |-> None, pmid |-> <<"6">>] >> }

ScoreWeights ==
    { DefaultWeights,
      [role_fit_high |-> 0, company_intent_high |-> 0,
       technographic_medium |-> 0, technographic_nams |-> 0,
       location_hub |-> 0, scientific_intent_very_high |-> 0],
      [role_fit_high |-> 31, company_intent_high |-> 5,
       technographic_medium |-> 150, technographic_nams |-> 1,
       location_hub |-> 2, scientific_intent_very_high |-> 7] }

ScoreLead(title, funding, signals, location, hq, papers) ==
    [Lead(<<"D","r","."," ","A"," ","B">>, title, <<"B","i","o","g","e","n">>, location, hq, None, papers, <<>>)
        EXCEPT !.funding_info = funding,
               !.dyn = IF signals.set THEN {"technographic_signals"} ELSE {},
               !.technographic_signals = signals.val]

ScoreLeads ==
    { ScoreLead(t, f, s, l, h, p) :
        t \in ScoreTitles, f \in ScoreFunding, s \in ScoreSignals,
        l \in ScoreLocations, h \in ScoreHQs, p \in ScorePapers }

\* the identification variables of a run that does not identify
IdleIdent ==
    /\ job_titles = <<>>
    /\ keywords = <<>>
    /\ max_results = 0
    /\ leads_dict = <<>>
    /\ queue = <<>>
    /\ conf = 0
    /\ pubmed = "none"
    /\ query = None
    /\ mock_attendees = None
    /\ created = <<>>
    /\ handled = [authors |-> 0, attendees |-> 0]
    /\ leads = <<>>

\* the enrichment and ranking variables of a run that stops earlier
IdlePipe ==
    /\ idx = 0
    /\ enriched_leads = <<>>
    /\ ranked_leads = <<>>
    /\ failed = <<>>
    /\ given = <<>>
    /\ steps = <<>>

InitScore ==
    /\ pc = "input"
    /\ weights \in ScoreWeights
    /\ lead \in ScoreLeads
    /\ ret = None
    /\ clock_year = current_year
    /\ IdleIdent
    /\ IdlePipe

\* RankingEngine.calculate_score(lead)
calculate_score ==
    /\ pc = "input"
    /\ IF CalculateScoreRaises(lead)
       THEN /\ pc' = "raised"
            /\ UNCHANGED <<lead, ret>>
       ELSE /\ pc' = "scored"
            /\ lead' = [lead EXCEPT !.score = ScoreValue(lead, weights)]
            /\ ret' = Some(ScoreValue(lead, weights))
    /\ UNCHANGED <<weights, clock_year, identVars, pipeVars>>

NextScore == calculate_score

SpecScore == InitScore /\ [][NextScore]_vars

----------------------------------------------------------------------------
(* Stage 1: identification.py *)

\* variant of Take: the last n elements, s[-n:]
Take_Tail(s, n) == SubSeq(s, Len(s) - Min(n, Len(s)) + 1, Len(s))

\* s[:n] for n >= 0
Take(s, n) == SubSeq(s, 1, Min(n, Len(s)))

\* f"{name}_{company}"
Key(name, company) == name \o <<"_">> \o company

\* key in d, for an insertion-ordered dict d = sequence of [key, lead]
DictHas(d, key) == \E k \in 1..Len(d) : d[k].key = key

DictIdx(d, key) == CHOOSE k \in 1..Len(d) : d[k].key = key

\* d[key] = v: an existing key keeps its position, a new key goes last
DictSet(d, key, v) ==
    IF DictHas(d, key)
    THEN [d EXCEPT ![DictIdx(d, key)] = [key |-> key, lead |-> v]]
    ELSE Append(d, [key |-> key, lead |-> v])

\* variant of DictValues: the values in reverse insertion order
DictValues_Reversed(d) == [k \in 1..Len(d) |-> d[Len(d) + 1 - k].lead]

\* list(d.values())
DictValues(d) == [k \in 1..Len(d) |-> d[k].lead]

\* the conferences searched in step 3
Conferences == << <<"S","O","T">>, <<"A","A","C","R">>, <<"I","S","S","X">>, <<"A","C","T">> >>

(* Records a source can hold.  The searchers' hard-coded lists are stand-ins *)
(* for provider data, so the provider's data is drawn from these records;   *)
(* the first profile, the canned papers and the first two attendees are the *)
(* records of the source.                                                   *)

SarahProfile ==
    [name |-> <<"D","r","."," ","S","a","r","a","h"," ","J","o","h","n","s","o","n">>, title |-> <<"D","i","r","e","c","t","o","r"," ","o","f"," ","T","o","x","i","c","o","l","o","g","y">>,
     company |-> <<"P","f","i","z","e","r"," ","I","n","c">>, location |-> <<"C","a","m","b","r","i","d","g","e",","," ","M","A">>,
     linkedin_url |-> <<"h","t","t","p","s",":","/","/","l","i","n","k","e","d","i","n",".","c","o","m","/","i","n","/","s","a","r","a","h","-","j","o","h","n","s","o","n">>,
     company_hq |-> <<"N","e","w"," ","Y","o","r","k",","," ","N","Y">>]

\* the same person as a provider cases her differently, optional keys absent
SarahUpperProfile ==
    [name |-> <<"D","R","."," ","S","A","R","A","H"," ","J","O","H","N","S","O","N">>, title |-> <<"D","i","r","e","c","t","o","r"," ","o","f"," ","T","o","x","i","c","o","l","o","g","y">>,
     company |-> <<"P","f","i","z","e","r"," ","i","n","c">>]

AshleyProfile ==
    [name |-> <<"A","s","h","l","e","y"," ","L","e","e">>, title |-> <<"H","e","a","d"," ","o","f"," ","S","a","f","e","t","y">>,
     company |-> <<"B","i","o","g","e","n">>, location |-> <<"B","o","s","t","o","n",","," ","M","A">>]

LeeProfile ==
    [name |-> <<"L","e","e">>, title |-> <<"S","c","i","e","n","t","i","s","t">>, company |-> <<"U","n","k","n","o","w","n">>]

\* a person whose name holds the separator of the key
UnderscoreProfile ==
    [name |-> <<"A","_","B">>, title |-> <<"D","i","r","e","c","t","o","r">>, company |-> <<"C">>]

ProfileUniverse ==
    {SarahProfile, SarahUpperProfile, AshleyProfile, LeeProfile, UnderscoreProfile}

MaxProfiles == 2

\* sequences over S of length at most n
SeqUpTo(S, n) == UNION {[1..m -> S] : m \in 0..n}

JobTitleChoices == { <<>>, << <<"D","i","r","e","c","t","o","r">> >>, << <<"d","i","r","e","c","t","o","r">>, <<"S">> >> }

KeywordChoices == { <<>>, << <<"l","i","v","e","r">> >> }

MaxResults == 3

\* variant of search_profiles: an empty filter list lets every profile pass
search_profiles_EmptyIsAll(mock_profiles, titles, limit) ==
    LET keep(p) ==
            \/ titles = <<>>
            \/ \E t \in 1..Len(titles) : Contains(Lower(titles[t]), Lower(p.title))
        filtered == SelectSeq(mock_profiles, keep)
    IN  Take(filtered, limit)

\* LinkedInSearcher.search_profiles over the provider data mock_profiles
search_profiles(mock_profiles, titles, limit) ==
    LET keep(p) == \E t \in 1..Len(titles) : Contains(Lower(titles[t]), Lower(p.title))
        filtered == SelectSeq(mock_profiles, keep)
    IN  Take(filtered, limit)

\* the Lead built from a profile (lines 290-297)
LeadFromProfile(profile) ==
    Lead(profile.name, profile.title, profile.company,
         DictGet(profile, "location", <<>>),
         IF "company_hq" \in DOMAIN profile THEN Some(profile.company_hq) ELSE None,
         IF "linkedin_url" \in DOMAIN profile THEN Some(profile.linkedin_url) ELSE None,
         <<>>, <<>>)

\* PubMedSearcher._get_mock_papers
MockPapers ==
    << [pmid |-> <<"1","2","3","4","5","6","7","8">>,
        title |-> <<"D","r","u","g","-","I","n","d","u","c","e","d"," ","L","i","v","e","r"," ","I","n","j","u","r","y",":"," ","A"," ","C","o","m","p","r","e","h","e","n","s","i","v","e"," ","R","e","v","i","e","w">>,
        authors |-> << <<"D","r","."," ","S","a","r","a","h"," ","J","o","h","n","s","o","n">>, <<"D","r","."," ","J","o","h","n"," ","S","m","i","t","h">> >>,
        year |-> 2024, journal |-> <<"T","o","x","i","c","o","l","o","g","y"," ","a","n","d"," ","A","p","p","l","i","e","d"," ","P","h","a","r","m","a","c","o","l","o","g","y">>],
       [pmid |-> <<"1","2","3","4","5","6","7","9">>,
        title |-> <<"3","D"," ","I","n","-","V","i","t","r","o"," ","M","o","d","e","l","s"," ","f","o","r"," ","H","e","p","a","t","i","c"," ","T","o","x","i","c","i","t","y"," ","A","s","s","e","s","s","m","e","n","t">>,
        authors |-> << <<"D","r","."," ","M","i","c","h","a","e","l"," ","C","h","e","n">>, <<"D","r","."," ","L","i","s","a"," ","W","a","n","g">> >>,
        year |-> 2023, journal |-> <<"B","i","o","m","a","t","e","r","i","a","l","s">>] >>

\* papers of a successful search: _get_paper_details is a simplified parse
\* that leaves the authors empty (DetailsPaper); a full parse yields papers
\* with authors and possibly without title or year (LeePaper, BarePaper)
LeePaper ==
    [pmid |-> <<"7">>, title |-> <<"H","e","p","a","t","i","c"," ","s","p","h","e","r","o","i","d","s">>,
     authors |-> << <<"L","e","e">>, <<"a","s","h","l","e","y"," ","l","e","e">> >>, year |-> 2024]

BarePaper == [pmid |-> <<"8">>, authors |-> << <<"D","r","."," ","S","a","r","a","h"," ","J","o","h","n","s","o","n">> >>]

\* what _get_paper_details builds (lines 173-179)
DetailsPaper ==
    [pmid |-> <<"9">>, title |-> <<"R","e","s","e","a","r","c","h"," ","P","a","p","e","r"," ","9">>, authors |-> <<>>,
     year |-> 2024, journal |-> <<"J","o","u","r","n","a","l"," ","o","f"," ","T","o","x","i","c","o","l","o","g","y">>]

PaperUniverse == {LeePaper, BarePaper, DetailsPaper}

MaxPapers == 1

\* paper.get(k): None when the key is absent
OptGet(d, k) == IF k \in DOMAIN d THEN Some(d[k]) ELSE None

RECURSIVE extract_authors_from_papers(_)
\* PubMedSearcher.extract_authors_from_papers
extract_authors_from_papers(papers) ==
    IF papers = <<>> THEN <<>>
    ELSE LET paper == Head(papers)
             authors == DictGet(paper, "authors", <<>>)
         IN  [a \in 1..Len(authors) |->
                 [name |-> authors[a], paper_title |-> OptGet(paper, "title"),
                  year |-> OptGet(paper, "year"), pmid |-> OptGet(paper, "pmid")]]
             \o extract_authors_from_papers(Tail(papers))

\* the publication dict appended to a lead (lines 321-325, 337-341)
PaperOf(author_info) ==
    [title |-> author_info.paper_title, year |-> author_info.year,
     pmid |-> author_info.pmid]

\* line 320: either lower-cased name contains the other
NameMatch(author_name, lead_name) ==
    \/ Contains(Lower(author_name), Lower(lead_name))
    \/ Contains(Lower(lead_name), Lower(author_name))

\* variant of FirstMatch: the scan does not stop, the last match wins
FirstMatch_Last(d, author_name) ==
    IF \E k \in 1..Len(d) : NameMatch(author_name, d[k].lead.name)
    THEN CHOOSE k \in 1..Len(d) :
            /\ NameMatch(author_name, d[k].lead.name)
            /\ \A j \in (k + 1)..Len(d) : ~NameMatch(author_name, d[j].lead.name)
    ELSE 0

\* 0 when the scan of lines 319-327 finds no lead, else the index of the
\* first matching lead in insertion order
FirstMatch(d, author_name) ==
    IF \E k \in 1..Len(d) : NameMatch(author_name, d[k].lead.name)
    THEN CHOOSE k \in 1..Len(d) :
            /\ NameMatch(author_name, d[k].lead.name)
            /\ \A j \in 1..(k - 1) : ~NameMatch(author_name, d[j].lead.name)
    ELSE 0

\* the Lead built from an unmatched author (lines 332-342)
LeadFromAuthor(author_info) ==
    Lead(author_info.name, <<"R","e","s","e","a","r","c","h","e","r">>, <<"U","n","k","n","o","w","n">>, <<>>, None, None,
         <<PaperOf(author_info)>>, <<>>)

\* variant of MergeAuthorInto: the scan does not stop at the first match, the
\* publication goes to every matching lead
MergeAuthorInto_AllMatches(d, author_info) ==
    IF FirstMatch(d, author_info.name) # 0
    THEN [k \in 1..Len(d) |->
             IF NameMatch(author_info.name, d[k].lead.name)
             THEN [d[k] EXCEPT !.lead.pubmed_papers = Append(@, PaperOf(author_info))]
             ELSE d[k]]
    ELSE DictSet(d, Key(author_info.name, <<"U","n","k","n","o","w","n">>), LeadFromAuthor(author_info))

\* one pass of the loop body of lines 315-342
MergeAuthorInto(d, author_info) ==
    LET m == FirstMatch(d, author_info.name)
    IN  IF m # 0
        THEN [d EXCEPT ![m].lead.pubmed_papers = Append(@, PaperOf(author_info))]
        ELSE DictSet(d, Key(author_info.name, <<"U","n","k","n","o","w","n">>), LeadFromAuthor(author_info))

SarahAttendee ==
    [name |-> <<"D","r","."," ","S","a","r","a","h"," ","J","o","h","n","s","o","n">>, title |-> <<"D","i","r","e","c","t","o","r"," ","o","f"," ","T","o","x","i","c","o","l","o","g","y">>,
     company |-> <<"P","f","i","z","e","r"," ","I","n","c">>]

EmilyAttendee ==
    [name |-> <<"D","r","."," ","E","m","i","l","y"," ","R","o","d","r","i","g","u","e","z">>, title |-> <<"V","P"," ","P","r","e","c","l","i","n","i","c","a","l"," ","D","e","v","e","l","o","p","m","e","n","t">>,
     company |-> <<"B","i","o","g","e","n">>]

LeeAttendee ==
    [name |-> <<"L","e","e">>, title |-> <<"S","c","i","e","n","t","i","s","t">>, company |-> <<"U","n","k","n","o","w","n">>]

\* another person, whose organization holds the separator of the key
UnderscoreAttendee ==
    [name |-> <<"A">>, title |-> <<"S","c","i","e","n","t","i","s","t">>, company |-> <<"B","_","C">>]

AttendeeUniverse == {SarahAttendee, EmilyAttendee, LeeAttendee, UnderscoreAttendee}

MaxAttendees == 2

\* the Lead built from an unmatched attendee (lines 356-362)
LeadFromAttendee(attendee, conf_name) ==
    Lead(attendee.name, attendee.title, attendee.company, <<>>, None, None,
         <<>>, <<conf_name>>)

\* variant of MergeAttendeeInto: the event name is put in front
MergeAttendeeInto_Prepend(d, attendee, conf_name) ==
    LET key == Key(attendee.name, attendee.company)
    IN  IF DictHas(d, key)
        THEN [d EXCEPT ![DictIdx(d, key)].lead.conference_attendance = <<conf_name>> \o @]
        ELSE DictSet(d, key, LeadFromAttendee(attendee, conf_name))

\* variant of MergeAttendeeInto: a known key gets a fresh Lead
MergeAttendeeInto_Overwrite(d, attendee, conf_name) ==
    DictSet(d, Key(attendee.name, attendee.company), LeadFromAttendee(attendee, conf_name))

\* one pass of the loop body of lines 351-362
MergeAttendeeInto(d, attendee, conf_name) ==
    LET key == Key(attendee.name, attendee.company)
    IN  IF DictHas(d, key)
        THEN [d EXCEPT ![DictIdx(d, key)].lead.conference_attendance = Append(@, conf_name)]
        ELSE DictSet(d, key, LeadFromAttendee(attendee, conf_name))

\* the scoring variables of a run that has not reached ranking
IdleScore ==
    /\ weights = DefaultWeights
    /\ lead = None
    /\ ret = None
    /\ clock_year = current_year

InitIdentify ==
    /\ pc = "linkedin"
    /\ job_titles \in JobTitleChoices
    /\ keywords \in KeywordChoices
    /\ max_results \in 1..MaxResults
    /\ leads_dict = <<>>
    /\ queue = <<>>
    /\ conf = 0
    /\ pubmed = "none"
    /\ query = None
    /\ mock_attendees = None
    /\ created = <<>>
    /\ handled = [authors |-> 0, attendees |-> 0]
    /\ leads = <<>>
    /\ IdleScore
    /\ IdlePipe

\* lines 281-286: the profile search
Step1Search ==
    /\ pc = "linkedin"
    /\ \E mock_profiles \in SeqUpTo(ProfileUniverse, MaxProfiles) :
          queue' = search_profiles(mock_profiles, job_titles, max_results)
    /\ pc' = IF queue' = <<>> THEN "pubmed" ELSE "step1"
    /\ UNCHANGED <<job_titles, keywords, max_results, leads_dict, conf, pubmed, query,
                   mock_attendees, created, handled, leads, scoreVars, pipeVars>>

\* lines 288-297: one profile becomes a Lead under its key
Step1Add ==
    /\ pc = "step1"
    /\ LET profile == Head(queue)
           key == Key(profile.name, profile.company)
       IN  /\ leads_dict' = DictSet(leads_dict, key, LeadFromProfile(profile))
           /\ created' = Append(created, [key |-> key, origin |-> "profile"])
    /\ queue' = Tail(queue)
    /\ pc' = IF queue' = <<>> THEN "pubmed" ELSE "step1"
    /\ UNCHANGED <<job_titles, keywords, max_results, conf, pubmed, query,
                   mock_attendees, handled, leads, scoreVars, pipeVars>>

\* the five domain keywords of lines 302-306
DomainKeywords ==
    << <<"D","r","u","g","-","I","n","d","u","c","e","d"," ","L","i","v","e","r"," ","I","n","j","u","r","y">>, <<"3","D"," ","c","e","l","l"," ","c","u","l","t","u","r","e">>, <<"O","r","g","a","n","-","o","n","-","c","h","i","p">>,
       <<"H","e","p","a","t","i","c"," ","s","p","h","e","r","o","i","d","s">>, <<"I","n","v","e","s","t","i","g","a","t","i","v","e"," ","T","o","x","i","c","o","l","o","g","y">> >>

\* variant of pubmed_keywords: the topic keywords are left out of the query
pubmed_keywords_DomainOnly(kw) == DomainKeywords

\* lines 301-307: the keywords of the publication search
pubmed_keywords(kw) == kw \o DomainKeywords

\* what search_papers hands back for each behaviour of requests.get: a list
\* of papers, the canned papers after an exception (lines 154-157), or None
\* after a response whose status is not 200 (the function ends at line 153
\* without a return)
SearchPapersResult(outcome, papers) ==
    CASE outcome = "ok" -> Some(papers)
      [] outcome = "exception" -> Some(MockPapers)
      [] outcome = "status" -> None

\* lines 299-313: the publication search; extract_authors_from_papers(None)
\* iterates over None, a TypeError that nothing catches
Step2Search ==
    /\ pc = "pubmed"
    /\ IF keywords = <<>>
       THEN /\ pubmed' = "skipped"
            /\ query' = None
            /\ queue' = <<>>
            /\ pc' = "conference"
       ELSE \E outcome \in {"ok", "exception", "status"} :
            \E papers \in SeqUpTo(PaperUniverse, MaxPapers) :
               LET r == SearchPapersResult(outcome, papers)
               IN  /\ outcome # "ok" => papers = <<>>
                   /\ pubmed' = outcome
                   /\ query' = Some(pubmed_keywords(keywords))
                   /\ IF r = None
                      THEN /\ queue' = <<>>
                           /\ pc' = "raised"
                      ELSE /\ queue' = extract_authors_from_papers(r[1])
                           /\ pc' = IF queue' = <<>> THEN "conference" ELSE "step2"
    /\ conf' = IF pc' = "conference" THEN 1 ELSE conf
    /\ UNCHANGED <<job_titles, keywords, max_results, leads_dict,
                   mock_attendees, created, handled, leads, scoreVars, pipeVars>>

\* lines 315-342: one author record is merged or becomes a Lead
Step2Merge ==
    /\ pc = "step2"
    /\ LET author_info == Head(queue)
       IN  /\ leads_dict' = MergeAuthorInto(leads_dict, author_info)
           /\ created' =
                 IF FirstMatch(leads_dict, author_info.name) = 0
                 THEN Append(created, [key |-> Key(author_info.name, <<"U","n","k","n","o","w","n">>),
                                       origin |-> "publication"])
                 ELSE created
    /\ handled' = [handled EXCEPT !.authors = @ + 1]
    /\ queue' = Tail(queue)
    /\ pc' = IF queue' = <<>> THEN "conference" ELSE "step2"
    /\ conf' = IF pc' = "conference" THEN 1 ELSE conf
    /\ UNCHANGED <<job_titles, keywords, max_results, pubmed, query,
                   mock_attendees, leads, scoreVars, pipeVars>>

\* where the run stands once the attendees of conference c are done
AfterConference(c) == IF c = Len(Conferences) THEN "return" ELSE "conference"

\* lines 345-349: search_attendees returns the provider's attendees, the
\* same list whatever the conference
Step3Search ==
    /\ pc = "conference"
    /\ IF mock_attendees = None
       THEN \E a \in SeqUpTo(AttendeeUniverse, MaxAttendees) : mock_attendees' = Some(a)
       ELSE mock_attendees' = mock_attendees
    /\ queue' = mock_attendees'[1]
    /\ pc' = IF queue' = <<>> THEN AfterConference(conf) ELSE "step3"
    /\ conf' = IF pc' = "conference" THEN conf + 1 ELSE conf
    /\ UNCHANGED <<job_titles, keywords, max_results, leads_dict, pubmed, query,
                   created, handled, leads, scoreVars, pipeVars>>

\* lines 351-362: one attendee is merged or becomes a Lead
Step3Merge ==
    /\ pc = "step3"
    /\ LET attendee == Head(queue)
           key == Key(attendee.name, attendee.company)
       IN  /\ leads_dict' = MergeAttendeeInto(leads_dict, attendee, Conferences[conf])
           /\ created' =
                 IF DictHas(leads_dict, key) THEN created
                 ELSE Append(created, [key |-> key, origin |-> "event"])
    /\ handled' = [handled EXCEPT !.attendees = @ + 1]
    /\ queue' = Tail(queue)
    /\ pc' = IF queue' = <<>> THEN AfterConference(conf) ELSE "step3"
    /\ conf' = IF pc' = "conference" THEN conf + 1 ELSE conf
    /\ UNCHANGED <<job_titles, keywords, max_results, pubmed, query,
                   mock_attendees, leads, scoreVars, pipeVars>>

\* lines 364-367: the values of the map, cut to max_results
Step4Return ==
    /\ pc = "return"
    /\ leads' = Take(DictValues(leads_dict), max_results)
    /\ pc' = "identified"
    /\ UNCHANGED <<job_titles, keywords, max_results, leads_dict, queue, conf,
                   pubmed, query, mock_attendees, created, handled, scoreVars, pipeVars>>

NextIdentify ==
    \/ Step1Search
    \/ Step1Add
    \/ Step2Search
    \/ Step2Merge
    \/ Step3Search
    \/ Step3Merge
    \/ Step4Return

SpecIdentify == InitIdentify /\ [][NextIdentify]_vars

----------------------------------------------------------------------------
(* Stage 2: enrichment.py *)

RECURSIVE SplitFrom(_, _, _)
\* str.split(): the maximal runs of characters other than blanks, in order
SplitFrom(s, cur, acc) ==
    IF s = <<>> THEN (IF cur = <<>> THEN acc ELSE Append(acc, cur))
    ELSE IF Head(s) = " "
         THEN SplitFrom(Tail(s), <<>>, IF cur = <<>> THEN acc ELSE Append(acc, cur))
         ELSE SplitFrom(Tail(s), Append(cur, Head(s)), acc)

Split(s) == SplitFrom(s, <<>>, <<>>)

Digits == <<"0","1","2","3","4","5","6","7","8","9">>

\* re.sub(r'[^a-z0-9]', '', s)
Slug(s) ==
    SelectSeq(s, LAMBDA c : \/ \E i \in 1..Len(LowerChars) : LowerChars[i] = c
                            \/ \E i \in 1..Len(Digits) : Digits[i] = c)

\* the loops "for key, value in table.items(): if key in s: return value":
\* 0, or the index of the first entry whose key is a substring of s
FirstKeyIn(table, s) ==
    IF \E k \in 1..Len(table) : Contains(table[k][1], s)
    THEN CHOOSE k \in 1..Len(table) :
            /\ Contains(table[k][1], s)
            /\ \A j \in 1..(k - 1) : ~Contains(table[j][1], s)
    ELSE 0

domain_map ==
    << <<<<"p","f","i","z","e","r">>,
        <<"p","f","i","z","e","r",".","c","o","m">>>>,  \* "pfizer": "pfizer.com"
       <<<<"m","o","d","e","r","n","a">>,
        <<"m","o","d","e","r","n","a","t","x",".","c","o","m">>>>,  \* "moderna": "modernatx.com"
       <<<<"b","i","o","g","e","n">>,
        <<"b","i","o","g","e","n",".","c","o","m">>>>,  \* "biogen": "biogen.com"
       <<<<"g","i","l","e","a","d">>,
        <<"g","i","l","e","a","d",".","c","o","m">>>>,  \* "gilead": "gilead.com"
       <<<<"r","e","g","e","n","e","r","o","n">>,
        <<"r","e","g","e","n","e","r","o","n",".","c","o","m">>>>,  \* "regeneron": "regeneron.com"
       <<<<"v","e","r","t","e","x">>,
        <<"v","r","t","x",".","c","o","m">>>>,  \* "vertex": "vrtx.com"
       <<<<"a","m","g","e","n">>,
        <<"a","m","g","e","n",".","c","o","m">>>>,  \* "amgen": "amgen.com"
       <<<<"b","r","i","s","t","o","l"," ","m","y","e","r","s"," ","s","q","u","i","b","b">>,
        <<"b","m","s",".","c","o","m">>>>,  \* "bristol myers squibb": "bms.com"
       <<<<"m","e","r","c","k">>,
        <<"m","e","r","c","k",".","c","o","m">>>>,  \* "merck": "merck.com"
       <<<<"n","o","v","a","r","t","i","s">>,
        <<"n","o","v","a","r","t","i","s",".","c","o","m">>>>,  \* "novartis": "novartis.com"
       <<<<"r","o","c","h","e">>,
        <<"r","o","c","h","e",".","c","o","m">>>> >>  \* "roche": "roche.com"

hq_map ==
    << <<<<"p","f","i","z","e","r">>,
        <<"N","e","w"," ","Y","o","r","k",","," ","N","Y">>>>,  \* "pfizer": "New York, NY"
       <<<<"m","o","d","e","r","n","a">>,
        <<"C","a","m","b","r","i","d","g","e",","," ","M","A">>>>,  \* "moderna": "Cambridge, MA"
       <<<<"b","i","o","g","e","n">>,
        <<"C","a","m","b","r","i","d","g","e",","," ","M","A">>>>,  \* "biogen": "Cambridge, MA"
       <<<<"g","i","l","e","a","d">>,
        <<"F","o","s","t","e","r"," ","C","i","t","y",","," ","C","A">>>>,  \* "gilead": "Foster City, CA"
       <<<<"r","e","g","e","n","e","r","o","n">>,
        <<"T","a","r","r","y","t","o","w","n",","," ","N","Y">>>>,  \* "regeneron": "Tarrytown, NY"
       <<<<"v","e","r","t","e","x">>,
        <<"B","o","s","t","o","n",","," ","M","A">>>>,  \* "vertex": "Boston, MA"
       <<<<"a","m","g","e","n">>,
        <<"T","h","o","u","s","a","n","d"," ","O","a","k","s",","," ","C","A">>>>,  \* "amgen": "Thousand Oaks, CA"
       <<<<"b","r","i","s","t","o","l"," ","m","y","e","r","s"," ","s","q","u","i","b","b">>,
        <<"N","e","w"," ","Y","o","r","k",","," ","N","Y">>>>,  \* "bristol myers squibb": "New York, NY"
       <<<<"m","e","r","c","k">>,
        <<"K","e","n","i","l","w","o","r","t","h",","," ","N","J">>>>,  \* "merck": "Kenilworth, NJ"
       <<<<"n","o","v","a","r","t","i","s">>,
        <<"B","a","s","e","l",","," ","S","w","i","t","z","e","r","l","a","n","d">>>>,  \* "novartis": "Basel, Switzerland"
       <<<<"r","o","c","h","e">>,
        <<"B","a","s","e","l",","," ","S","w","i","t","z","e","r","l","a","n","d">>>> >>  \* "roche": "Basel, Switzerland"

LocationEnricher_hub_locations ==
    << <<"b","o","s","t","o","n">>,  \* "boston"
       <<"c","a","m","b","r","i","d","g","e">>,  \* "cambridge"
       <<"b","a","y"," ","a","r","e","a">>,  \* "bay area"
       <<"s","a","n"," ","f","r","a","n","c","i","s","c","o">>,  \* "san francisco"
       <<"s","a","n"," ","j","o","s","e">>,  \* "san jose"
       <<"b","a","s","e","l">>,  \* "basel"
       <<"l","o","n","d","o","n">>,  \* "london"
       <<"o","x","f","o","r","d">>,  \* "oxford"
       <<"c","a","m","b","r","i","d","g","e"," ","u","k">>,  \* "cambridge uk"
       <<"g","o","l","d","e","n"," ","t","r","i","a","n","g","l","e">> >>  \* "golden triangle"

\* EmailFinder._extract_domain
_extract_domain(company) ==
    LET company_lower == Lower(company)
        k == FirstKeyIn(domain_map, company_lower)
    IN  IF k # 0 THEN domain_map[k][2] ELSE Slug(company_lower) \o <<".","c","o","m">>

\* variant of find_email: the second name token is taken for the last one
find_email_SecondToken(name, company) ==
    LET domain == _extract_domain(company)
        name_parts == Split(Lower(name))
    IN  IF domain = <<>> THEN None
        ELSE IF Len(name_parts) >= 2
             THEN Some(name_parts[1] \o <<".">> \o name_parts[2] \o <<"@">> \o domain)
             ELSE None

\* EmailFinder.find_email without a domain argument: None or Some(address)
find_email(name, company) ==
    LET domain == _extract_domain(company)
        name_parts == Split(Lower(name))
    IN  IF domain = <<>> THEN None
        ELSE IF Len(name_parts) >= 2
             THEN Some(name_parts[1] \o <<".">> \o name_parts[Len(name_parts)] \o <<"@">> \o domain)
             ELSE None

\* LocationEnricher._get_company_hq
_get_company_hq(company) ==
    LET k == FirstKeyIn(hq_map, Lower(company))
    IN  IF k # 0 THEN hq_map[k][2] ELSE <<"U","n","k","n","o","w","n">>

\* LocationEnricher.enrich_location
enrich_location(person_location, company) ==
    LET company_hq == _get_company_hq(company)
    IN  [person_location |-> person_location,
         company_hq |-> company_hq,
         is_hub |-> AnyContains(LocationEnricher_hub_locations, Lower(person_location)),
         is_remote |-> person_location # company_hq /\ person_location # <<>>]

\* the table of FundingIntelligence.get_funding_info
funding_mock_data ==
    << <<<<"m","o","d","e","r","n","a">>,
         [recent_funding |-> Some(<<"S","e","r","i","e","s"," ","B"," ","-"," ","$","5","0","M"," ","(","2","0","2","4",")">>),
          funding_stage |-> <<"S","e","r","i","e","s"," ","B">>, amount |-> Some(50000000),
          date |-> Some(<<"2","0","2","4","-","0","1","-","1","5">>), has_budget |-> TRUE]>>,
       <<<<"b","i","o","g","e","n">>,
         [recent_funding |-> Some(<<"I","P","O"," ","-"," ","P","u","b","l","i","c"," ","C","o","m","p","a","n","y">>),
          funding_stage |-> <<"P","u","b","l","i","c">>, amount |-> None,
          date |-> None, has_budget |-> TRUE]>> >>

\* FundingIntelligence.get_funding_info: Some(descriptor)
get_funding_info(company) ==
    LET k == FirstKeyIn(funding_mock_data, Lower(company))
    IN  IF k # 0 THEN Some(funding_mock_data[k][2])
        ELSE Some([recent_funding |-> None, funding_stage |-> <<"U","n","k","n","o","w","n">>,
                   amount |-> None, date |-> None, has_budget |-> FALSE])

\* TechnographicEnricher.check_technographics
check_technographics(company) ==
    IF Contains(<<"m","o","d","e","r","n","a">>, Lower(company)) \/ Contains(<<"b","i","o","g","e","n">>, Lower(company))
    THEN << <<"U","s","e","s"," ","i","n"," ","v","i","t","r","o"," ","m","o","d","e","l","s">>, <<"O","p","e","n"," ","t","o"," ","N","A","M","s">> >>
    ELSE <<>>

\* variant of EnrichSteps: the funding lookup is made first
EnrichSteps_FundingFirst == <<"funding", "contact", "location", "technographic">>

\* the four steps of enrich_lead, in the order of lines 265-290
EnrichSteps == <<"contact", "location", "funding", "technographic">>

\* variant of ApplyStep: the technographic step extends the signal list
\* instead of replacing it
ApplyStep_AppendSignals(l, step) ==
    CASE step = "contact" ->
            IF l.email = None \/ l.email = Some(<<>>)
            THEN [l EXCEPT !.email = find_email(l.name, l.company)]
            ELSE l
      [] step = "location" ->
            [l EXCEPT !.company_hq = Some(enrich_location(l.location, l.company).company_hq)]
      [] step = "funding" ->
            [l EXCEPT !.funding_info = get_funding_info(l.company)]
      [] step = "technographic" ->
            [l EXCEPT !.technographic_signals = @ \o check_technographics(l.company),
                      !.dyn = @ \cup {"technographic_signals"}]

\* what one step of enrich_lead writes on lead l
ApplyStep(l, step) ==
    CASE step = "contact" ->
            IF l.email = None \/ l.email = Some(<<>>)
            THEN [l EXCEPT !.email = find_email(l.name, l.company)]
            ELSE l
      [] step = "location" ->
            LET location_data == enrich_location(l.location, l.company)
            IN  [l EXCEPT !.company_hq = Some(location_data.company_hq),
                          !.location = location_data.person_location]
      [] step = "funding" ->
            [l EXCEPT !.funding_info = get_funding_info(l.company)]
      [] step = "technographic" ->
            [l EXCEPT !.technographic_signals = check_technographics(l.company),
                      !.dyn = @ \cup {"technographic_signals"}]

RECURSIVE ApplySteps(_, _, _)
\* the steps from number k on, stopping before the step named fail
ApplySteps(l, k, fail) ==
    IF k > Len(EnrichSteps) \/ EnrichSteps[k] = fail THEN l
    ELSE ApplySteps(ApplyStep(l, EnrichSteps[k]), k + 1, fail)

\* variant of enrich_lead: a call that raises leaves the lead as it found it
enrich_lead_AllOrNothing(l, fail) ==
    IF fail = "none" THEN ApplySteps(l, 1, fail) ELSE l

\* EnrichmentEngine.enrich_lead on lead l when the sub-enricher named fail
\* raises ("none": no sub-enricher raises): the lead as the call leaves it
enrich_lead(l, fail) == ApplySteps(l, 1, fail)

----------------------------------------------------------------------------
(* rank_leads, and the runs of enrich_leads and of the loop of app.py *)

\* the Lead objects objs after calculate_score has run on those at ids[1..n]
ScoreFirst(objs, ids, n, w) ==
    [o \in 1..Len(objs) |->
        IF \E k \in 1..n : ids[k] = o
        THEN [objs[o] EXCEPT !.score = ScoreValue(objs[o], w)]
        ELSE objs[o]]

\* 0, or the first position of ids whose lead makes calculate_score raise
FirstRaising(objs, ids) ==
    IF \E k \in 1..Len(ids) : CalculateScoreRaises(objs[ids[k]])
    THEN CHOOSE k \in 1..Len(ids) :
            /\ CalculateScoreRaises(objs[ids[k]])
            /\ \A j \in 1..(k - 1) : ~CalculateScoreRaises(objs[ids[j]])
    ELSE 0

\* variant of InsertDesc: the new element goes before the elements of equal score
InsertDesc_BeforeTies(objs, sorted, id) ==
    LET n == Cardinality({k \in 1..Len(sorted) : objs[sorted[k]].score > objs[id].score})
    IN  SubSeq(sorted, 1, n) \o <<id>> \o SubSeq(sorted, n + 1, Len(sorted))

\* sorted(..., key=score, reverse=True) is stable: an element goes behind
\* every element already placed whose score is at least its own
InsertDesc(objs, sorted, id) ==
    LET n == Cardinality({k \in 1..Len(sorted) : objs[sorted[k]].score >= objs[id].score})
    IN  SubSeq(sorted, 1, n) \o <<id>> \o SubSeq(sorted, n + 1, Len(sorted))

RECURSIVE SortDesc(_, _, _)
\* line 206: the elements of ids, in order, inserted into sorted
SortDesc(objs, ids, sorted) ==
    IF ids = <<>> THEN sorted
    ELSE SortDesc(objs, Tail(ids), InsertDesc(objs, sorted, Head(ids)))

\* lines 209-210: lead.rank = i for the i-th lead of ranked
AssignRanks(objs, ranked) ==
    [o \in 1..Len(objs) |->
        IF \E i \in 1..Len(ranked) : ranked[i] = o
        THEN [objs[o] EXCEPT !.rank = CHOOSE i \in 1..Len(ranked) : ranked[i] = o,
                             !.dyn = @ \cup {"rank"}]
        ELSE objs[o]]

\* leads as identify_leads can return them, for the enrichment runs
SarahLead ==
    [LeadFromProfile(SarahProfile) EXCEPT
        !.pubmed_papers = <<PaperOf(extract_authors_from_papers(MockPapers)[1])>>,
        !.conference_attendance = Conferences]

WangLead == LeadFromAuthor(extract_authors_from_papers(MockPapers)[4])

EmilyLead ==
    [LeadFromAttendee(EmilyAttendee, Conferences[1]) EXCEPT
        !.conference_attendance = Conferences]

AshleyLead == LeadFromProfile(AshleyProfile)

PipelineLeads == {SarahLead, WangLead, EmilyLead, AshleyLead}

MaxBatch == 3

\* lists of distinct leads of length at most MaxBatch
PipelineBatches ==
    {b \in SeqUpTo(PipelineLeads, MaxBatch) :
        \A i, j \in 1..Len(b) : b[i] = b[j] => i = j}

\* the sub-enricher that raises during one enrich_lead call, if any
FailPoints == {"none", "contact", "location", "funding", "technographic"}

InitPipeline ==
    /\ pc \in {"main", "enrich_leads"}
    /\ leads \in PipelineBatches
    /\ given = leads
    /\ idx = 1
    /\ enriched_leads = <<>>
    /\ ranked_leads = <<>>
    /\ failed = <<>>
    /\ steps = <<>>
    /\ job_titles = <<>>
    /\ keywords = <<>>
    /\ max_results = 0
    /\ leads_dict = <<>>
    /\ queue = <<>>
    /\ conf = 0
    /\ pubmed = "none"
    /\ query = None
    /\ mock_attendees = None
    /\ created = <<>>
    /\ handled = [authors |-> 0, attendees |-> 0]
    /\ IdleScore

\* app.py lines 161-163: no leads, a warning and nothing else
MainNoLeads ==
    /\ pc = "main"
    /\ leads = <<>>
    /\ pc' = "warned"
    /\ UNCHANGED <<scoreVars, identVars, pipeVars>>

\* app.py lines 171-179: one pass of the loop; the lead is appended to
\* enriched_leads whether or not enrich_lead raised
MainEnrichStep ==
    /\ pc = "main"
    /\ idx <= Len(leads)
    /\ \E fail \in FailPoints :
          /\ leads' = [leads EXCEPT ![idx] = enrich_lead(@, fail)]
          /\ failed' = Append(failed, fail)
    /\ enriched_leads' = Append(enriched_leads, idx)
    /\ idx' = idx + 1
    /\ UNCHANGED <<pc, scoreVars, job_titles, keywords, max_results, leads_dict,
                   queue, conf, pubmed, query, mock_attendees, created, handled, ranked_leads, given, steps>>

\* app.py line 186, ranking.py lines 195-214: rank_leads(enriched_leads);
\* an exception of calculate_score leaves rank_leads and main
MainRank ==
    /\ pc = "main"
    /\ leads # <<>>
    /\ idx > Len(leads)
    /\ LET r == FirstRaising(leads, enriched_leads)
       IN  IF r # 0
           THEN /\ leads' = ScoreFirst(leads, enriched_leads, r - 1, weights)
                /\ pc' = "raised"
                /\ UNCHANGED ranked_leads
           ELSE LET scored == ScoreFirst(leads, enriched_leads, Len(enriched_leads), weights)
                    ranked == SortDesc(scored, enriched_leads, <<>>)
                IN  /\ leads' = AssignRanks(scored, ranked)
                    /\ ranked_leads' = ranked
                    /\ pc' = "done"
    /\ UNCHANGED <<scoreVars, job_titles, keywords, max_results, leads_dict,
                   queue, conf, pubmed, query, mock_attendees, created, handled,
                   idx, enriched_leads, failed, given, steps>>

\* enrichment.py lines 298-302: one pass of the loop of enrich_leads
EnrichLeadsStep ==
    /\ pc = "enrich_leads"
    /\ idx <= Len(leads)
    /\ \E fail \in FailPoints :
          /\ leads' = [leads EXCEPT ![idx] = enrich_lead(@, fail)]
          /\ failed' = Append(failed, fail)
    /\ idx' = idx + 1
    /\ UNCHANGED <<pc, scoreVars, job_titles, keywords, max_results, leads_dict,
                   queue, conf, pubmed, query, mock_attendees, created, handled,
                   enriched_leads, ranked_leads, given, steps>>

\* enrichment.py line 304: enrich_leads returns the list it was given
EnrichLeadsReturn ==
    /\ pc = "enrich_leads"
    /\ idx > Len(leads)
    /\ ret' = Some(leads)
    /\ pc' = "enriched"
    /\ UNCHANGED <<weights, lead, clock_year, identVars, pipeVars>>

NextPipeline ==
    \/ MainNoLeads
    \/ MainEnrichStep
    \/ MainRank
    \/ EnrichLeadsStep
    \/ EnrichLeadsReturn

SpecPipeline == InitPipeline /\ [][NextPipeline]_vars

----------------------------------------------------------------------------
(* Runs of enrich_lead on one lead, step by step and repeated *)

EnrichNames ==
    { <<"D","r","."," ","S","a","r","a","h"," ","J","o","h","n","s","o","n">>, <<"A","s","h","l","e","y"," ","L","e","e">>, <<"L","e","e">>, <<" ","A","n","n"," "," ","L","e","e"," ">> }

EnrichCompanies ==
    { <<"P","f","i","z","e","r"," ","I","n","c">>, <<"B","i","o","g","e","n">>, <<"U","n","k","n","o","w","n">>, <<"M","o","d","e","r","n","a"," ","T","h","e","r","a","p","e","u","t","i","c","s">>,
      <<"A","c","m","e","-","B","i","o"," ","3","D">>, <<"M","e","r","c","k"," ","&"," ","P","f","i","z","e","r">> }

EnrichLocations == { <<>>, <<"B","o","s","t","o","n",","," ","M","A">>, <<"S","a","n"," ","J","o","s","e",","," ","C","A">> }

\* a lead comes from identification without an email; a caller may have set one
EnrichEmails == { None, Some(<<"s","@","x",".","o","r","g">>) }

EnrichLeadChoices ==
    { [Lead(n, <<"S","c","i","e","n","t","i","s","t">>, c, l, None, None, <<RecentRelevantPaper>>, <<Conferences[1]>>)
          EXCEPT !.email = e] :
        n \in EnrichNames, c \in EnrichCompanies, l \in EnrichLocations, e \in EnrichEmails }

MaxCalls == 2

InitEnrich ==
    /\ pc = "step"
    /\ lead \in EnrichLeadChoices
    /\ given = <<lead>>
    /\ steps = <<>>
    /\ idx = 1
    /\ enriched_leads = <<>>
    /\ ranked_leads = <<>>
    /\ failed = <<>>
    /\ weights = DefaultWeights
    /\ ret = None
    /\ clock_year = current_year
    /\ IdleIdent

\* enrichment.py lines 265-290: the next sub-enricher of enrich_lead(lead)
EnrichStep ==
    /\ pc = "step"
    /\ idx <= Len(EnrichSteps)
    /\ lead' = ApplyStep(lead, EnrichSteps[idx])
    /\ steps' = Append(steps, EnrichSteps[idx])
    /\ idx' = idx + 1
    /\ UNCHANGED <<pc, weights, ret, clock_year, identVars,
                   enriched_leads, ranked_leads, failed, given>>

\* enrich_lead returns; given records the lead as each call leaves it
EnrichReturn ==
    /\ pc = "step"
    /\ idx > Len(EnrichSteps)
    /\ pc' = "returned"
    /\ given' = Append(given, lead)
    /\ UNCHANGED <<scoreVars, identVars, idx, enriched_leads, ranked_leads, failed, steps>>

\* enrich_lead is called again on the same lead
EnrichAgain ==
    /\ pc = "returned"
    /\ Len(given) <= MaxCalls
    /\ pc' = "step"
    /\ idx' = 1
    /\ UNCHANGED <<scoreVars, identVars, enriched_leads, ranked_leads, failed, given, steps>>

NextEnrich ==
    \/ EnrichStep
    \/ EnrichReturn
    \/ EnrichAgain

SpecEnrich == InitEnrich /\ [][NextEnrich]_vars

----------------------------------------------------------------------------
(* Scoring runs in different calendar years *)

\* the years in which a run may take place
YearChoices == 2024..2027

YearTitles == { <<"H","e","p","a","t","i","c"," ","s","p","h","e","r","o","i","d","s">>, <<"R","e","s","e","a","r","c","h"," ","P","a","p","e","r"," ","3">> }

\* no publication, or one publication of a year around the run
YearPapers ==
    { <<>> } \cup
    { << [title |-> Some(t), year |-> Some(y), pmid |-> <<"1">>] >> :
        t \in YearTitles, y \in 2020..2027 }

\* leads whose only signal can be a publication
YearLeads ==
    { ScoreLead(<<>>, None, [set |-> TRUE, val |-> <<>>], <<>>, None, p) : p \in YearPapers }

InitYear ==
    /\ pc = "input"
    /\ weights \in ScoreWeights
    /\ lead \in YearLeads
    /\ ret = None
    /\ clock_year \in YearChoices
    /\ IdleIdent
    /\ IdlePipe

SpecYear == InitYear /\ [][NextScore]_vars

----------------------------------------------------------------------------
(* Identification, enrichment and pipeline runs taken together *)

InitRuns == InitIdentify \/ InitEnrich \/ InitPipeline

NextRuns == NextIdentify \/ NextEnrich \/ NextPipeline

SpecRuns == InitRuns /\ [][NextRuns]_vars

----------------------------------------------------------------------------
(* The hub test of the location enricher next to the one of the scoring *)

\* person locations: every hub name of either list, in the spellings of the
\* sources' data, and places that are no hub
HubLocations ==
    { <<>>, <<"B","o","s","t","o","n",","," ","M","A">>, <<"C","A","M","B","R","I","D","G","E",","," ","M","A">>, <<"B","a","y"," ","A","r","e","a">>, <<"S","a","n"," ","F","r","a","n","c","i","s","c","o",","," ","C","A">>,
      <<"S","a","n"," ","J","o","s","e",","," ","C","A">>, <<"B","a","s","e","l">>, <<"L","o","n","d","o","n">>, <<"O","x","f","o","r","d">>, <<"C","a","m","b","r","i","d","g","e"," ","U","K">>,
      <<"G","o","l","d","e","n"," ","T","r","i","a","n","g","l","e">>, <<"A","u","s","t","i","n",","," ","T","X">> }

HubHQs == { None, Some(<<"N","e","w"," ","Y","o","r","k",","," ","N","Y">>), Some(<<"C","a","m","b","r","i","d","g","e",","," ","M","A">>) }

HubCompanies == { <<"B","i","o","g","e","n">>, <<"U","n","k","n","o","w","n">> }

HubLeads ==
    { Lead(<<"D","r","."," ","A"," ","B">>, <<"S","c","i","e","n","t","i","s","t">>, c, l, h, None, <<>>, <<>>) :
        c \in HubCompanies, l \in HubLocations, h \in HubHQs }

InitHub ==
    /\ pc = "locate"
    /\ weights \in ScoreWeights
    /\ lead \in HubLeads
    /\ ret = None
    /\ clock_year = current_year
    /\ IdleIdent
    /\ IdlePipe

\* LocationEnricher.enrich_location(lead.location, lead.company)
EnrichLocation ==
    /\ pc = "locate"
    /\ ret' = Some([location_data |-> enrich_location(lead.location, lead.company)])
    /\ pc' = "located"
    /\ UNCHANGED <<weights, lead, clock_year, identVars, pipeVars>>

\* RankingEngine._score_location(lead.location, lead.company_hq)
ScoreLocation ==
    /\ pc = "located"
    /\ ret' = Some([location_data |-> ret[1].location_data,
                    location_hub |-> _score_location(lead.location, lead.company_hq, weights)])
    /\ pc' = "hub_scored"
    /\ UNCHANGED <<weights, lead, clock_year, identVars, pipeVars>>

NextHub ==
    \/ EnrichLocation
    \/ ScoreLocation

SpecHub == InitHub /\ [][NextHub]_vars

----------------------------------------------------------------------------
(* Properties *)

\* C1: after calculate_score every candidate's score is an integer with
\* 0 <= score <= 100, for every combination of inputs and every choice of
\* non-negative integer weights, also when their sum exceeds 100.
C1_ScoreInRange ==
    /\ lead.score \in 0..100
    /\ pc = "scored" => ret = Some(lead.score)

\* C1 witness: a lead has been scored whose six contributions sum to more
\* than 100.
C1_Witness ==
    /\ pc = "scored"
    /\ SignalSum(lead, weights) > 100
    /\ lead.score = 100

\* C9: calculate_score never raises, whatever input is missing, None or
\* empty (no technology-signal list, a publication without a year, ...).
C9_NeverRaises == pc # "raised"

\* Expected contributions of the inputs of the scoring runs, read off the
\* table of spec section 4.3.
ExpRole(title, w) ==
    CASE title = <<"D","i","r","e","c","t","o","r"," ","o","f"," ","T","o","x","i","c","o","l","o","g","y">> -> w.role_fit_high
      [] title = <<"S","a","f","e","t","y"," ","S","c","i","e","n","t","i","s","t">> -> w.role_fit_high \div 2
      [] OTHER -> 0

ExpIntent(funding, w) ==
    IF funding = None \/ "has_budget" \notin DOMAIN funding[1] THEN 0
    ELSE IF ~funding[1].has_budget THEN 0
    ELSE IF "funding_stage" \in DOMAIN funding[1]
            /\ funding[1].funding_stage = <<"S","e","r","i","e","s"," ","B">>
         THEN w.company_intent_high
         ELSE w.company_intent_high \div 2

ExpTech(signals, w) ==
    IF \E k \in 1..Len(signals) : signals[k] = <<"U","s","e","s"," ","i","n"," ","v","i","t","r","o"," ","m","o","d","e","l","s">>
    THEN w.technographic_medium ELSE 0

ExpNams(signals, w) ==
    IF \E k \in 1..Len(signals) : signals[k] = <<"O","p","e","n"," ","t","o"," ","N","A","M","s">>
    THEN w.technographic_nams ELSE 0

ExpHub(location, hq, w) ==
    IF location = <<"C","a","m","b","r","i","d","g","e",","," ","M","A">> \/ hq = Some(<<"C","a","m","b","r","i","d","g","e",","," ","M","A">>)
    THEN w.location_hub ELSE 0

ExpScience(papers, w) ==
    IF \E k \in 1..Len(papers) : papers[k] = RecentRelevantPaper
    THEN w.scientific_intent_very_high ELSE 0

ExpSum(l, w) ==
    ExpRole(l.title, w) + ExpIntent(l.funding_info, w)
    + ExpTech(l.technographic_signals, w) + ExpNams(l.technographic_signals, w)
    + ExpHub(l.location, l.company_hq, w) + ExpScience(l.pubmed_papers, w)

AllSignalsLead ==
    ScoreLead(<<"D","i","r","e","c","t","o","r"," ","o","f"," ","T","o","x","i","c","o","l","o","g","y">>,
              Some([recent_funding |-> Some(<<"S","e","r","i","e","s"," ","B"," ","-"," ","$","5","0","M"," ","(","2","0","2","4",")">>),
                    funding_stage |-> <<"S","e","r","i","e","s"," ","B">>, amount |-> Some(50000000),
                    date |-> Some(<<"2","0","2","4","-","0","1","-","1","5">>), has_budget |-> TRUE]),
              [set |-> TRUE, val |-> << <<"U","s","e","s"," ","i","n"," ","v","i","t","r","o"," ","m","o","d","e","l","s">>, <<"O","p","e","n"," ","t","o"," ","N","A","M","s">> >>],
              <<"C","a","m","b","r","i","d","g","e",","," ","M","A">>, Some(<<"N","e","w"," ","Y","o","r","k",","," ","N","Y">>), <<RecentRelevantPaper>>)

NoSignalLead ==
    ScoreLead(<<"J","u","n","i","o","r"," ","S","c","i","e","n","t","i","s","t">>, None, [set |-> TRUE, val |-> <<>>],
              <<"U","n","k","n","o","w","n">>, None, <<>>)

\* C10: calculate_score returns and stores min(100, role + intent + tech +
\* nams + hub + science), each term chosen independently by the table: full
\* role weight for seniority and domain-role keyword, floor(weight/2) for a
\* domain-role keyword alone; full intent weight for a high-value stage with
\* budget, half for budget alone; the other four all-or-nothing.  With the
\* default weights the all-signals lead sums to 125 and scores 100 and the
\* lead without any signal scores 0.
C10_ScoreIsCappedSum ==
    pc = "scored" =>
        /\ lead.score = Min(100, ExpSum(lead, weights))
        /\ ret = Some(lead.score)
        /\ (weights = DefaultWeights /\ [lead EXCEPT !.score = 0] = AllSignalsLead)
              => ExpSum(lead, weights) = 125 /\ lead.score = 100
        /\ (weights = DefaultWeights /\ [lead EXCEPT !.score = 0] = NoSignalLead)
              => lead.score = 0

\* C10 witness: the all-signals lead has been scored under the default
\* weights, 30 + 20 + 15 + 10 + 10 + 40 = 125 capped to 100.
C10_Witness ==
    /\ pc = "scored"
    /\ weights = DefaultWeights
    /\ [lead EXCEPT !.score = 0] = AllSignalsLead
    /\ ExpSum(lead, weights) = 125
    /\ lead.score = 100

\* C2: after identify_leads no two returned candidates have the same name
\* and organization when compared ignoring case.
C2_UniqueIgnoringCase ==
    pc = "identified" =>
        \A i, j \in 1..Len(leads) :
            (/\ Lower(leads[i].name) = Lower(leads[j].name)
             /\ Lower(leads[i].company) = Lower(leads[j].company)) => i = j

\* the candidates whose name and the author's name contain one another,
\* ignoring case
C3_Matches(d, author_name) ==
    {k \in 1..Len(d) :
        \/ Contains(Lower(author_name), Lower(d[k].lead.name))
        \/ Contains(Lower(d[k].lead.name), Lower(author_name))}

C3_Step(d, e, a) ==
    LET pub == [title |-> a.paper_title, year |-> a.year, pmid |-> a.pmid]
        ms == C3_Matches(d, a.name)
    IN  IF ms # {}
        THEN LET m == CHOOSE k \in ms : \A j \in ms : k <= j
             IN  /\ Len(e) = Len(d)
                 /\ \A k \in 1..Len(d) : k # m => e[k] = d[k]
                 /\ e[m] = [d[m] EXCEPT !.lead.pubmed_papers = d[m].lead.pubmed_papers \o <<pub>>]
        ELSE /\ Len(e) = Len(d) + 1
             /\ \A k \in 1..Len(d) : e[k] = d[k]
             /\ e[Len(e)].lead.name = a.name
             /\ e[Len(e)].lead.title = <<"R","e","s","e","a","r","c","h","e","r">>
             /\ e[Len(e)].lead.company = <<"U","n","k","n","o","w","n">>
             /\ e[Len(e)].lead.location = <<>>
             /\ e[Len(e)].lead.pubmed_papers = <<pub>>
             /\ e[Len(e)].lead.conference_attendance = <<>>

\* C3: in step 2 every author record whose name and some candidate's name
\* contain one another (ignoring case, either direction) adds its publication
\* {title, year, pmid} to the first such candidate in insertion order,
\* candidates created earlier in step 2 included, and creates nothing; an
\* author matching no candidate creates exactly one candidate with title
\* "Researcher", organization "Unknown", empty location and that publication.
C3_AuthorMerge ==
    [][pc = "step2" => C3_Step(leads_dict, leads_dict', Head(queue))]_vars

\* C3 witness: two candidates named "Ashley Lee" and "Lee" both matched the
\* authors "Lee" and "ashley lee"; both publications went to the first.
C3_Witness ==
    /\ pc = "conference"
    /\ Len(leads_dict) = 2
    /\ leads_dict[1].lead.name = <<"A","s","h","l","e","y"," ","L","e","e">>
    /\ leads_dict[2].lead.name = <<"L","e","e">>
    /\ Len(leads_dict[1].lead.pubmed_papers) = 2
    /\ leads_dict[2].lead.pubmed_papers = <<>>

RECURSIVE C4_FirstKeys(_, _)
\* the keys of the creation log, each at its first creation
C4_FirstKeys(log, seen) ==
    IF log = <<>> THEN <<>>
    ELSE IF Head(log).key \in seen THEN C4_FirstKeys(Tail(log), seen)
    ELSE <<Head(log).key>> \o C4_FirstKeys(Tail(log), seen \cup {Head(log).key})

C4_Phase(origin) ==
    CASE origin = "profile" -> 1 [] origin = "publication" -> 2 [] origin = "event" -> 3

\* C4: identify_leads returns exactly the first min(max_results, n) of the
\* n candidates created, in creation order: profile creations, then
\* creations from unmatched authors, then creations from unmatched
\* attendees; a merge never moves a candidate.
C4_Truncation ==
    pc = "identified" =>
        LET keys == C4_FirstKeys(created, {})
        IN  /\ Len(leads) = Min(max_results, Len(keys))
            /\ \A i \in 1..Len(leads) :
                  leads[i].name \o <<"_">> \o leads[i].company = keys[i]
            /\ \A i, j \in 1..Len(created) :
                  i <= j => C4_Phase(created[i].origin) <= C4_Phase(created[j].origin)

\* C4 witness: three candidates were created, one in each step, evidence
\* was merged onto the first, and max_results = 2 kept the first two.
C4_Witness ==
    /\ pc = "identified"
    /\ max_results = 2
    /\ Len(leads) = 2
    /\ Len(created) = 3
    /\ created[1].origin = "profile"
    /\ created[2].origin = "publication"
    /\ created[3].origin = "event"
    /\ leads[1].conference_attendance # <<>>
    /\ leads[2].title = <<"R","e","s","e","a","r","c","h","e","r">>

\* C7: no failure of the publication search escapes identify_leads, be it an
\* exception, a timeout or a response whose status is not 200.
C7_NoAdapterFailureEscapes ==
    pubmed \in {"exception", "status"} => pc # "raised"

\* position of id in the list ids
C5_Pos(ids, id) == CHOOSE k \in 1..Len(ids) : ids[k] = id

\* C5: rank_leads returns a permutation of its input with non-increasing
\* scores, leads of equal score in their input order, and rank = i for the
\* lead at output position i, so the ranks are exactly 1..n.
C5_StableRanking ==
    pc = "done" =>
        /\ Len(ranked_leads) = Len(enriched_leads)
        /\ \A o \in 1..Len(leads) :
              Cardinality({k \in 1..Len(ranked_leads) : ranked_leads[k] = o})
              = Cardinality({k \in 1..Len(enriched_leads) : enriched_leads[k] = o})
        /\ \A i, j \in 1..Len(ranked_leads) :
              i < j =>
                 /\ leads[ranked_leads[i]].score >= leads[ranked_leads[j]].score
                 /\ leads[ranked_leads[i]].score = leads[ranked_leads[j]].score
                       => C5_Pos(enriched_leads, ranked_leads[i])
                          < C5_Pos(enriched_leads, ranked_leads[j])
        /\ \A i \in 1..Len(ranked_leads) :
              /\ "rank" \in leads[ranked_leads[i]].dyn
              /\ leads[ranked_leads[i]].rank = i

\* C5 witness: three leads were ranked, the first of the input moved to the
\* end, and the two leads before it tie and kept their input order.
C5_Witness ==
    /\ pc = "done"
    /\ ranked_leads = <<2, 3, 1>>
    /\ leads[2].score = leads[3].score
    /\ leads[1].score < leads[2].score
    /\ leads[1].rank = 3 /\ leads[2].rank = 1 /\ leads[3].rank = 2

\* what a run of enrich_lead without failure leaves on the leads of the
\* enrichment runs: email, headquarters, funding stage and budget, signals
C6_Expected(name) ==
    CASE name = <<"D","r","."," ","S","a","r","a","h"," ","J","o","h","n","s","o","n">> ->
            [email |-> Some(<<"d","r",".",".","j","o","h","n","s","o","n","@","p","f","i","z","e","r",".","c","o","m">>),
             company_hq |-> Some(<<"N","e","w"," ","Y","o","r","k",","," ","N","Y">>),
             stage |-> <<"U","n","k","n","o","w","n">>, has_budget |-> FALSE, signals |-> <<>>]
      [] name = <<"D","r","."," ","L","i","s","a"," ","W","a","n","g">> ->
            [email |-> Some(<<"d","r",".",".","w","a","n","g","@","u","n","k","n","o","w","n",".","c","o","m">>),
             company_hq |-> Some(<<"U","n","k","n","o","w","n">>),
             stage |-> <<"U","n","k","n","o","w","n">>, has_budget |-> FALSE, signals |-> <<>>]
      [] name = <<"D","r","."," ","E","m","i","l","y"," ","R","o","d","r","i","g","u","e","z">> ->
            [email |-> Some(<<"d","r",".",".","r","o","d","r","i","g","u","e","z","@","b","i","o","g","e","n",".","c","o","m">>),
             company_hq |-> Some(<<"C","a","m","b","r","i","d","g","e",","," ","M","A">>),
             stage |-> <<"P","u","b","l","i","c">>, has_budget |-> TRUE,
             signals |-> << <<"U","s","e","s"," ","i","n"," ","v","i","t","r","o"," ","m","o","d","e","l","s">>, <<"O","p","e","n"," ","t","o"," ","N","A","M","s">> >>]
      [] name = <<"A","s","h","l","e","y"," ","L","e","e">> ->
            [email |-> Some(<<"a","s","h","l","e","y",".","l","e","e","@","b","i","o","g","e","n",".","c","o","m">>),
             company_hq |-> Some(<<"C","a","m","b","r","i","d","g","e",","," ","M","A">>),
             stage |-> <<"P","u","b","l","i","c">>, has_budget |-> TRUE,
             signals |-> << <<"U","s","e","s"," ","i","n"," ","v","i","t","r","o"," ","m","o","d","e","l","s">>, <<"O","p","e","n"," ","t","o"," ","N","A","M","s">> >>]

\* C6: when the funding sub-enricher raises for a candidate during
\* enrich_leads, that candidate keeps the email and headquarters written by
\* the contact and location steps of the call and stays at its position; the
\* returned list has the length and order of the input; every candidate
\* whose enrichment did not fail ends with all four outputs of a
\* failure-free run.
C6_FailureIsolation ==
    pc = "enriched" =>
        /\ ret = Some(leads)
        /\ Len(leads) = Len(given)
        /\ Len(failed) = Len(given)
        /\ \A i \in 1..Len(leads) :
              /\ leads[i].name = given[i].name
              /\ leads[i].company = given[i].company
              /\ failed[i] = "funding" =>
                    /\ leads[i].email = C6_Expected(given[i].name).email
                    /\ leads[i].company_hq = C6_Expected(given[i].name).company_hq
              /\ failed[i] = "none" =>
                    /\ leads[i].email = C6_Expected(given[i].name).email
                    /\ leads[i].company_hq = C6_Expected(given[i].name).company_hq
                    /\ leads[i].funding_info # None
                    /\ leads[i].funding_info[1].funding_stage = C6_Expected(given[i].name).stage
                    /\ leads[i].funding_info[1].has_budget = C6_Expected(given[i].name).has_budget
                    /\ "technographic_signals" \in leads[i].dyn
                    /\ leads[i].technographic_signals = C6_Expected(given[i].name).signals

\* C6 witness: enrich_leads returned a batch of two; the funding sub-enricher
\* raised for the first lead, which has its email and a headquarters it did
\* not have before, and no funding descriptor; the second lead is enriched.
C6_Witness ==
    /\ pc = "enriched"
    /\ failed = <<"funding", "none">>
    /\ given[1].company_hq = None
    /\ leads[1].email # None
    /\ leads[1].company_hq = Some(<<"C","a","m","b","r","i","d","g","e",","," ","M","A">>)
    /\ leads[1].funding_info = None
    /\ leads[2].funding_info # None
    /\ "technographic_signals" \in leads[2].dyn

\* C8: in a run of the loop of app.py followed by rank_leads, a sub-enricher
\* failure for one candidate never makes the run raise: ranking completes
\* and returns every candidate, the failed one included, each with a score
\* and a rank.
C8_FailureNeverCrashes ==
    (pc \in {"done", "raised"} /\ \E i \in 1..Len(failed) : failed[i] # "none") =>
        /\ pc = "done"
        /\ Len(ranked_leads) = Len(leads)
        /\ \A o \in 1..Len(leads) :
              /\ \E k \in 1..Len(ranked_leads) : ranked_leads[k] = o
              /\ "rank" \in leads[o].dyn

\* the five enrichment outputs of a lead
C11_Outputs(l) ==
    <<l.company_hq, l.location, l.email, l.funding_info,
      l.dyn \cap {"technographic_signals"}, l.technographic_signals>>

\* C11: enrichment is idempotent: after a second (or later) enrich_lead on
\* the same lead, headquarters, person location, email, funding descriptor
\* and technology signals equal those left by the first call.
C11_Idempotent ==
    pc = "returned" =>
        /\ lead = given[Len(given)]
        /\ \A k \in 3..Len(given) : C11_Outputs(given[k]) = C11_Outputs(given[2])

\* C11 witness: a lead of Biogen without email or headquarters was enriched
\* twice; the first call wrote all outputs, the second left them as they were.
C11_Witness ==
    /\ pc = "returned"
    /\ Len(given) = 3
    /\ given[1].email = None /\ given[1].company_hq = None
    /\ given[2].email # None
    /\ given[2].technographic_signals # <<>>
    /\ lead.company_hq = Some(<<"C","a","m","b","r","i","d","g","e",","," ","M","A">>)
    /\ lead.company_hq = given[2].company_hq

\* the order of the sub-enrichers the claim states
C15_Order == <<"contact", "location", "funding", "technographic">>

C15_EmailPresent(l) == l.email # None /\ l.email # Some(<<>>)

\* what the step named s may change between lead l and lead m
C15_Frame(s, l, m) ==
    CASE s = "contact" ->
            /\ m = [l EXCEPT !.email = m.email]
            /\ C15_EmailPresent(l) => m.email = l.email
      [] s = "location" ->
            m = [l EXCEPT !.company_hq = m.company_hq]
      [] s = "funding" ->
            m = [l EXCEPT !.funding_info = m.funding_info]
      [] s = "technographic" ->
            m = [l EXCEPT !.technographic_signals = m.technographic_signals,
                          !.dyn = l.dyn \cup {"technographic_signals"}]

\* C15: within enrich_lead the sub-enrichers run in the order contact,
\* location, funding, technographic; contact writes only email and only when
\* it was absent, location writes only headquarters and leaves the person
\* location at its value, funding writes only the funding descriptor,
\* technographic writes only the signal list; name, title, organization,
\* publications, event attendance, score and rank never change.
C15_OrderAndFrame ==
    [][(pc = "step" /\ idx <= 4) =>
          /\ steps' = Append(steps, C15_Order[idx])
          /\ idx' = idx + 1
          /\ C15_Frame(C15_Order[idx], lead, lead')]_vars

\* C15 witness: one call has run its four steps in order and each of the
\* four outputs differs from what the lead had before.
C15_Witness ==
    /\ pc = "returned"
    /\ steps = C15_Order
    /\ lead.email # given[1].email
    /\ lead.company_hq # given[1].company_hq
    /\ lead.funding_info # given[1].funding_info
    /\ lead.technographic_signals # given[1].technographic_signals
    /\ lead.location = given[1].location
    /\ lead.pubmed_papers = given[1].pubmed_papers

\* lower-cased first and last whitespace-separated token of the names of the
\* enrichment runs
C16_Tokens(name) ==
    CASE name = <<"D","r","."," ","S","a","r","a","h"," ","J","o","h","n","s","o","n">> -> << <<"d","r",".">>, <<"j","o","h","n","s","o","n">> >>
      [] name = <<"A","s","h","l","e","y"," ","L","e","e">> -> << <<"a","s","h","l","e","y">>, <<"l","e","e">> >>
      [] name = <<" ","A","n","n"," "," ","L","e","e"," ">> -> << <<"a","n","n">>, <<"l","e","e">> >>
      [] name = <<"L","e","e">> -> << <<"l","e","e">>, <<"l","e","e">> >>

\* number of whitespace-separated tokens of these names
C16_TokenCount(name) ==
    CASE name = <<"D","r","."," ","S","a","r","a","h"," ","J","o","h","n","s","o","n">> -> 3
      [] name = <<"A","s","h","l","e","y"," ","L","e","e">> -> 2
      [] name = <<" ","A","n","n"," "," ","L","e","e"," ">> -> 2
      [] name = <<"L","e","e">> -> 1

\* mail domain of the organizations of the enrichment runs: first table
\* entry whose key the lower-cased name contains, else slug + ".com"
C16_Domain(company) ==
    CASE company = <<"P","f","i","z","e","r"," ","I","n","c">> -> <<"p","f","i","z","e","r",".","c","o","m">>
      [] company = <<"B","i","o","g","e","n">> -> <<"b","i","o","g","e","n",".","c","o","m">>
      [] company = <<"U","n","k","n","o","w","n">> -> <<"u","n","k","n","o","w","n",".","c","o","m">>
      [] company = <<"M","o","d","e","r","n","a"," ","T","h","e","r","a","p","e","u","t","i","c","s">> -> <<"m","o","d","e","r","n","a","t","x",".","c","o","m">>
      [] company = <<"A","c","m","e","-","B","i","o"," ","3","D">> -> <<"a","c","m","e","b","i","o","3","d",".","c","o","m">>
      [] company = <<"M","e","r","c","k"," ","&"," ","P","f","i","z","e","r">> -> <<"p","f","i","z","e","r",".","c","o","m">>

C16_Address(l) ==
    Some(C16_Tokens(l.name)[1] \o <<".">> \o C16_Tokens(l.name)[2]
         \o <<"@">> \o C16_Domain(l.company))

\* C16 as stated: every lead whose email is absent gets first.last@domain;
\* a lead whose email is present keeps it.
C16_EmailAlwaysSet ==
    pc = "returned" =>
        \A k \in 1..(Len(given) - 1) :
            IF given[k].email = None
            THEN given[k + 1].email = C16_Address(given[k])
            ELSE given[k + 1].email = given[k].email

\* C16 amended: a lead whose email is absent and whose name has at least
\* two whitespace-separated tokens gets first.last@domain; with fewer than
\* two tokens the email stays absent; a present email is kept.
C16_EmailWhenTwoTokens ==
    pc = "returned" =>
        \A k \in 1..(Len(given) - 1) :
            IF given[k].email = None
            THEN IF C16_TokenCount(given[k].name) >= 2
                 THEN given[k + 1].email = C16_Address(given[k])
                 ELSE given[k + 1].email = None
            ELSE given[k + 1].email = given[k].email

\* C16 witness: a three-token name at an organization matching two table
\* keys got the address built from its first and last token and the domain
\* of the first table entry.
C16_Witness ==
    /\ pc = "returned"
    /\ given[1].email = None
    /\ lead.name = <<"D","r","."," ","S","a","r","a","h"," ","J","o","h","n","s","o","n">>
    /\ lead.company = <<"M","e","r","c","k"," ","&"," ","P","f","i","z","e","r">>
    /\ lead.email = Some(<<"d","r",".",".","j","o","h","n","s","o","n","@","p","f","i","z","e","r",".","c","o","m">>)

C13_Keys(d) == [k \in 1..Len(d) |-> d[k].key]

\* the key of a returned candidate
C13_KeyOf(l) == l.name \o <<"_">> \o l.company

\* C13 as stated: every candidate created in any identification step is
\* present in the sequence identify_leads returns.
C13_NothingDropped ==
    pc = "identified" =>
        \A i \in 1..Len(created) :
            \E k \in 1..Len(leads) : C13_KeyOf(leads[k]) = created[i].key

\* C13 amended: during identification no candidate leaves the candidate map
\* and none changes its position (a later record with the same key replaces
\* or extends it in place); the returned sequence holds the candidates of the
\* first max_results keys in creation order, the others are dropped.
C13_KeptInMapCutOnReturn ==
    /\ [](/\ \A i \in 1..Len(created) :
                \E k \in 1..Len(leads_dict) : leads_dict[k].key = created[i].key
          /\ pc = "identified" =>
                /\ Len(leads) = IF Len(leads_dict) < max_results
                                THEN Len(leads_dict) ELSE max_results
                /\ \A k \in 1..Len(leads) : leads[k] = leads_dict[k].lead)
    /\ [][/\ Len(leads_dict') >= Len(leads_dict)
          /\ SubSeq(C13_Keys(leads_dict'), 1, Len(leads_dict)) = C13_Keys(leads_dict)]_vars

\* C13 witness: four candidates were created under four keys, the map holds
\* all four and the call returned the first two.
C13_Witness ==
    /\ pc = "identified"
    /\ Len(leads_dict) = 4
    /\ max_results = 2
    /\ Len(leads) = 2
    /\ \E i \in 1..Len(created) :
          \A k \in 1..Len(leads) : C13_KeyOf(leads[k]) # created[i].key

\* the events of step 3 in the order the claim gives
C14_Events == << <<"S","O","T">>, <<"A","A","C","R">>, <<"I","S","S","X">>, <<"A","C","T">> >>

\* map e follows from map d by step 3 on attendee a of the event
C14_Step(d, e, a, event) ==
    LET key == a.name \o <<"_">> \o a.company
        hit == {k \in 1..Len(d) : d[k].key = key}
    IN  IF hit # {}
        THEN /\ Len(e) = Len(d)
             /\ \A k \in 1..Len(d) :
                   e[k] = IF k \in hit
                          THEN [d[k] EXCEPT !.lead.conference_attendance = Append(@, event)]
                          ELSE d[k]
        ELSE /\ Len(e) = Len(d) + 1
             /\ SubSeq(e, 1, Len(d)) = d
             /\ e[Len(e)].key = key
             /\ e[Len(e)].lead.name = a.name
             /\ e[Len(e)].lead.title = a.title
             /\ e[Len(e)].lead.company = a.company
             /\ e[Len(e)].lead.location = <<>>
             /\ e[Len(e)].lead.pubmed_papers = <<>>
             /\ e[Len(e)].lead.conference_attendance = <<event>>

\* C14: step 3 goes through the events SOT, AACR, ISSX, ACT in that order
\* and through every attendee record of each; an attendee whose
\* name+organization key equals the key of an existing candidate has the
\* event name appended to that candidate's conference_attendance and creates
\* nothing; any other attendee creates exactly one candidate with empty
\* location and conference_attendance = [that event].
C14_EventStep ==
    [][/\ conf' \in {conf, conf + 1}
       /\ pc = "conference" => conf \in 1..4 /\ queue' = mock_attendees'[1]
       /\ pc' = "return" => conf = 4 /\ queue' = <<>>
       /\ pc = "step3" =>
             /\ C14_Step(leads_dict, leads_dict', Head(queue), C14_Events[conf])
             /\ queue' = Tail(queue)]_vars

\* C14 witness: a candidate of the profile step and a candidate created by
\* the event step both carry the four events in order.
C14_Witness ==
    /\ pc = "identified"
    /\ \E i, j \in 1..Len(created) :
          /\ created[i].origin = "profile"
          /\ created[j].origin = "event"
          /\ \E k, n \in 1..Len(leads_dict) :
                /\ leads_dict[k].key = created[i].key
                /\ leads_dict[n].key = created[j].key
                /\ k # n
                /\ leads_dict[k].lead.conference_attendance = C14_Events
                /\ leads_dict[n].lead.conference_attendance = C14_Events
                /\ leads_dict[n].lead.location = <<>>

\* the five fixed domain keywords
C18_Five ==
    << <<"D","r","u","g","-","I","n","d","u","c","e","d"," ","L","i","v","e","r"," ","I","n","j","u","r","y">>, <<"3","D"," ","c","e","l","l"," ","c","u","l","t","u","r","e">>, <<"O","r","g","a","n","-","o","n","-","c","h","i","p">>,
       <<"H","e","p","a","t","i","c"," ","s","p","h","e","r","o","i","d","s">>, <<"I","n","v","e","s","t","i","g","a","t","i","v","e"," ","T","o","x","i","c","o","l","o","g","y">> >>

\* C18 as stated: on every call, an empty keyword list included, the
\* publication search has been queried with keywords + the five domain
\* keywords by the time the event step starts.
C18_Step2AlwaysRuns ==
    pc \in {"conference", "step3", "return", "identified"} =>
        query = Some(keywords \o C18_Five)

\* C18 amended: on a call with a non-empty keyword list step 2 runs, the
\* publication search is queried with the keywords followed by the five
\* domain keywords and its author records are merged before the event step;
\* on a call with an empty keyword list step 2 is skipped, no query is made
\* and no candidate comes from a publication.
C18_Step2WhenKeywords ==
    /\ pc \in {"step2", "conference", "step3", "return", "identified", "raised"} =>
          IF keywords = <<>>
          THEN /\ query = None
               /\ \A i \in 1..Len(created) : created[i].origin # "publication"
          ELSE query = Some(keywords \o C18_Five)
    /\ pc = "conference" /\ mock_attendees = None => queue = <<>>
    /\ \A i, j \in 1..Len(created) :
          created[i].origin = "event" /\ created[j].origin = "publication" => j < i

\* C18 witness: a call with a keyword queried the search with six keywords,
\* created a candidate from an author and later one from an attendee.
C18_Witness ==
    /\ pc = "identified"
    /\ keywords = << <<"l","i","v","e","r">> >>
    /\ query = Some(<< <<"l","i","v","e","r">> >> \o C18_Five)
    /\ \E i, j \in 1..Len(created) :
          /\ i < j
          /\ created[i].origin = "publication"
          /\ created[j].origin = "event"

\* candidate l and source record r name the same (name, organization) pair
C20_SameIdentity(l, r) == l.name = r.name /\ l.company = r.company

\* C20: steps 1 and 3 never merge records of different identities: a record
\* handled in step 1 or 3 changes only a candidate whose name and
\* organization are its own, "_" inside names or organizations included.
C20_NoForeignMerge ==
    [][(pc \in {"step1", "step3"}) =>
          \A k \in 1..Len(leads_dict) :
              leads_dict'[k] # leads_dict[k] =>
                  C20_SameIdentity(leads_dict[k].lead, Head(queue))]_vars

\* a publication of lead l earns the contribution in a run of year y
C17_Earns(l, y) ==
    \E k \in 1..Len(l.pubmed_papers) :
        /\ l.pubmed_papers[k].year[1] >= y - 2
        /\ l.pubmed_papers[k].title = Some(<<"H","e","p","a","t","i","c"," ","s","p","h","e","r","o","i","d","s">>)

\* C17: in whatever calendar year the run takes place, the
\* scientific-intent contribution (the whole score of a lead without other
\* signals) is the full weight exactly when a publication has year >= the
\* run's year - 2 and a title with a scientific keyword; an older
\* publication never earns it.
C17_RecentRelativeToRun ==
    pc = "scored" =>
        ret = Some(IF C17_Earns(lead, clock_year)
                   THEN IF weights.scientific_intent_very_high < 100
                        THEN weights.scientific_intent_very_high ELSE 100
                   ELSE 0)

\* sequence s is a prefix of sequence t
C19_Prefix(s, t) == Len(s) <= Len(t) /\ SubSeq(t, 1, Len(s)) = s

\* the evidence of lead m extends the evidence of lead l
C19_Grows(l, m) ==
    /\ C19_Prefix(l.pubmed_papers, m.pubmed_papers)
    /\ C19_Prefix(l.conference_attendance, m.conference_attendance)

\* C19: during identification and enrichment the evidence of a candidate
\* only grows: over every step the publication list and the
\* event-attendance list of each candidate of the map, of each lead of the
\* list handed on and of the lead being enriched have their value before the
\* step as a prefix.
C19_EvidenceGrows ==
    [][/\ \A k \in 1..Len(leads_dict) :
             /\ k <= Len(leads_dict')
             /\ leads_dict'[k].key = leads_dict[k].key
             /\ C19_Grows(leads_dict[k].lead, leads_dict'[k].lead)
       /\ \A k \in 1..Len(leads) :
             /\ k <= Len(leads')
             /\ C19_Grows(leads[k], leads'[k])
       /\ pc = "step" => C19_Grows(lead, lead')
       /\ pc = "return" =>
             \A k \in 1..Len(leads') : C19_Grows(leads_dict[k].lead, leads'[k])]_vars

\* C19 witness: a candidate of the profile step got a publication in step 2
\* and then the four events one after the other.
C19_Witness ==
    /\ pc = "identified"
    /\ leads # <<>>
    /\ Len(leads[1].pubmed_papers) = 1
    /\ Len(leads[1].conference_attendance) = 4
    /\ leads[1].linkedin_url # None

RECURSIVE C21_Publications(_)
\* number of publication entries over all candidates of map d
C21_Publications(d) ==
    IF d = <<>> THEN 0
    ELSE Len(Head(d).lead.pubmed_papers) + C21_Publications(Tail(d))

RECURSIVE C21_Attendances(_)
\* number of event-attendance entries over all candidates of map d
C21_Attendances(d) ==
    IF d = <<>> THEN 0
    ELSE Len(Head(d).lead.conference_attendance) + C21_Attendances(Tail(d))

\* the positions at which map e differs from map d
C21_Changed(d, e) == {k \in 1..Len(e) : k > Len(d) \/ e[k] # d[k]}

\* what candidate k of map e holds more than in map d: <<publications, events>>
C21_Gain(d, e, k) ==
    IF k > Len(d)
    THEN <<Len(e[k].lead.pubmed_papers), Len(e[k].lead.conference_attendance)>>
    ELSE <<Len(e[k].lead.pubmed_papers) - Len(d[k].lead.pubmed_papers),
           Len(e[k].lead.conference_attendance) - Len(d[k].lead.conference_attendance)>>

\* C21: the merge conserves evidence: just before the truncation the
\* publication entries over all candidates are as many as the author records
\* merged in step 2 and the event-attendance entries as many as the attendee
\* records merged in step 3 (every attendee of each of the four events);
\* each record adds exactly one entry to exactly one candidate.
C21_EvidenceConserved ==
    /\ [](pc = "return" =>
             /\ C21_Publications(leads_dict) = handled.authors
             /\ C21_Attendances(leads_dict) = handled.attendees
             /\ handled.attendees = 4 * Len(mock_attendees[1]))
    /\ [][(pc \in {"step2", "step3"}) =>
             /\ Cardinality(C21_Changed(leads_dict, leads_dict')) = 1
             /\ \A k \in C21_Changed(leads_dict, leads_dict') :
                   C21_Gain(leads_dict, leads_dict', k) =
                       IF pc = "step2" THEN <<1, 0>> ELSE <<0, 1>>]_vars

\* C21 witness: just before the truncation two author records and eight
\* attendee records have been merged into at least three candidates, one of
\* which holds a publication and the four events.
C21_Witness ==
    /\ pc = "return"
    /\ handled.authors >= 2
    /\ handled.attendees = 8
    /\ Len(leads_dict) >= 3
    /\ \E k \in 1..Len(leads_dict) :
          /\ Len(leads_dict[k].lead.pubmed_papers) >= 1
          /\ Len(leads_dict[k].lead.conference_attendance) = 4

\* C22: the location enricher and the scoring agree on what a hub is: when
\* enrich_location flags is_hub for a person location, the location-hub
\* contribution of a candidate with that person location is the full
\* weight; when the contribution that comes from the person location alone
\* (no headquarters, a weight above 0) is the full weight, is_hub is true.
C22_HubAgreement ==
    pc = "hub_scored" =>
        /\ ret[1].location_data.is_hub => ret[1].location_hub = weights.location_hub
        /\ (/\ lead.company_hq = None
            /\ weights.location_hub > 0
            /\ ret[1].location_hub = weights.location_hub) => ret[1].location_data.is_hub

=============================================================================
